---- MODULE Spec2Model ----
(***************************************************************************)
(* TetaNES cartridge mappers: the mapper loader (mapper.rs), the            *)
(* TxROM/MMC3 mapper (mapper/m004_txrom.rs), the CNROM mapper               *)
(* (mapper/cnrom.rs) and the save-state encoding of Mirroring (mapper.rs).  *)
(*                                                                          *)
(* Every operation of a mapper is a definition that takes the mapper value  *)
(* (`self`) and the call's arguments and yields the new mapper value (and   *)
(* the returned value); the actions apply these definitions to the loaded   *)
(* mapper.                                                                  *)
(***************************************************************************)
EXTENDS Integers, Sequences, FiniteSets, TLC

VARIABLES
    mapper,     \* what load_rom returned: the MapperType variant, or the error
    txrom,      \* the Txrom value (meaningful when mapper.tag = "Txrom")
    cnrom,      \* the Cnrom value (meaningful when mapper.tag = "Cnrom")
    op,         \* the last call made on the mapper and what it returned
    panicked,   \* TRUE once a call has panicked (the thread is gone)
    mirr,       \* a Mirroring value that is saved to / loaded from fh
    fh          \* the save-state byte stream (bytes still to be read)

vars == <<mapper, txrom, cnrom, op, panicked, mirr, fh>>

---------------------------------------------------------------------------
(* Bounds of the model *)

\* the IRQ latch values written to $C000 are 0..MaxLatch
MaxLatch == 2
\* the save-state stream holds at most MaxFh bytes
MaxFh == 2

---------------------------------------------------------------------------
(* Machine arithmetic *)

RECURSIVE BitAnd(_, _)
BitAnd(a, b) ==
    IF a = 0 \/ b = 0 THEN 0
    ELSE (a % 2) * (b % 2) + 2 * BitAnd(a \div 2, b \div 2)

\* addr >> n
Shr(a, n) == a \div (2 ^ n)

---------------------------------------------------------------------------
(* Mirroring (mapper.rs) *)

Mirroring == {"Horizontal", "Vertical", "SingleScreenA", "SingleScreenB", "FourScreen"}

\* MirroringAsU8 with the codes of the two single-screen modes exchanged
MirroringAsU8_swapped(m) ==
    CASE m = "Horizontal"    -> 0
      [] m = "Vertical"      -> 1
      [] m = "SingleScreenA" -> 3
      [] m = "SingleScreenB" -> 2
      [] m = "FourScreen"    -> 4

\* `*self as u8`: the discriminant, in declaration order
MirroringAsU8(m) ==
    CASE m = "Horizontal"    -> 0
      [] m = "Vertical"      -> 1
      [] m = "SingleScreenA" -> 2
      [] m = "SingleScreenB" -> 3
      [] m = "FourScreen"    -> 4

---------------------------------------------------------------------------
(* MemBanks (crate::mem, not among the source files): the bank translator   *)

\* The bank table of a fresh MemBanks: one slot per window of the address
\* range.  Its initial contents are not fixed by the description of the bank
\* translator: `init` chooses between every slot holding bank 0 ("zero") and
\* slot i holding bank i ("identity").
MemBanksInits == {"zero", "identity"}

MemBanks_new(start, end, capacity, window, init) ==
    [ start    |-> start,
      window   |-> window,
      capacity |-> capacity,
      banks    |-> [s \in 0 .. ((end - start + 1) \div window) - 1 |->
                        IF init = "identity" THEN s ELSE 0] ]

MemBanks_set(mb, slot, bank) == [mb EXCEPT !.banks[slot] = bank]

MemBanks_set_range(mb, first, last, bank) ==
    [mb EXCEPT !.banks = [s \in DOMAIN mb.banks |->
                             IF first <= s /\ s <= last
                             THEN bank + (s - first) ELSE mb.banks[s]]]

MemBanks_last(mb) == (mb.capacity \div mb.window) - 1

MemBanks_translate(mb, addr) ==
    LET slot  == (addr - mb.start) \div mb.window
        intra == (addr - mb.start) % mb.window
        bank  == mb.banks[slot] % (mb.capacity \div mb.window)
    IN  bank * mb.window + intra

---------------------------------------------------------------------------
(* TxROM / MMC3 (mapper/m004_txrom.rs) *)

Mmc3Revision == {"A", "BC", "Acc"}

PRG_WINDOW == 8192
CHR_WINDOW == 1024
FOUR_SCREEN_RAM_SIZE == 4096
PRG_RAM_SIZE == 8192
CHR_RAM_SIZE == 8192
PRG_MODE_MASK == 64
CHR_INVERSION_MASK == 128

TxRegs_new ==
    [ bank_select |-> 0,
      bank_values |-> [i \in 0 .. 7 |-> 0],
      irq_latch   |-> 0,
      irq_counter |-> 0,
      irq_enabled |-> FALSE,
      irq_reload  |-> FALSE,
      last_clock  |-> 0 ]

\* Txrom::load.  cart = [prg_rom_len, chr_rom_len, mirroring] is the parsed
\* cartridge; the RAM the loader adds to it is kept with the mapper value.
Txrom_load(cart, init) ==
    LET ex_ram_len  == IF cart.mirroring = "FourScreen" THEN FOUR_SCREEN_RAM_SIZE ELSE 0
        chr_ram_len == IF cart.chr_rom_len = 0 THEN CHR_RAM_SIZE ELSE 0
        chr_len     == IF cart.chr_rom_len = 0 THEN chr_ram_len ELSE cart.chr_rom_len
        prg  == MemBanks_new(32768, 65535, cart.prg_rom_len, PRG_WINDOW, init)
        last_bank == MemBanks_last(prg)
    IN  [ regs          |-> TxRegs_new,
          mirroring     |-> cart.mirroring,
          irq_pending   |-> FALSE,
          revision      |-> "BC",
          chr_banks     |-> MemBanks_new(0, 8191, chr_len, CHR_WINDOW, init),
          prg_ram_banks |-> MemBanks_new(24576, 32767, PRG_RAM_SIZE, PRG_WINDOW, init),
          prg_rom_banks |-> MemBanks_set(MemBanks_set(prg, 2, last_bank - 1), 3, last_bank),
          ex_ram_len    |-> ex_ram_len ]

set_revision(self, revision) == [self EXCEPT !.revision = revision]

update_banks(self) ==
    LET prg_last == MemBanks_last(self.prg_rom_banks)
        prg_lo   == self.regs.bank_values[6]
        prg_hi   == self.regs.bank_values[7]
        chr      == self.regs.bank_values
        p0 == self.prg_rom_banks
        p3 == IF BitAnd(self.regs.bank_select, PRG_MODE_MASK) = PRG_MODE_MASK
              THEN MemBanks_set(MemBanks_set(MemBanks_set(p0, 0, prg_last - 1), 1, prg_hi), 2, prg_lo)
              ELSE MemBanks_set(MemBanks_set(MemBanks_set(p0, 0, prg_lo), 1, prg_hi), 2, prg_last - 1)
        c0 == self.chr_banks
        c6 == IF BitAnd(self.regs.bank_select, CHR_INVERSION_MASK) = CHR_INVERSION_MASK
              THEN MemBanks_set_range(
                     MemBanks_set_range(
                       MemBanks_set(MemBanks_set(MemBanks_set(MemBanks_set(c0,
                         0, chr[2]), 1, chr[3]), 2, chr[4]), 3, chr[5]),
                       4, 5, BitAnd(chr[0], 254)),
                     6, 7, BitAnd(chr[1], 254))
              ELSE MemBanks_set(MemBanks_set(MemBanks_set(MemBanks_set(
                     MemBanks_set_range(
                       MemBanks_set_range(c0, 0, 1, BitAnd(chr[0], 254)),
                       2, 3, BitAnd(chr[1], 254)),
                     4, chr[2]), 5, chr[3]), 6, chr[4]), 7, chr[5])
    IN  [self EXCEPT !.prg_rom_banks = MemBanks_set(p3, 3, prg_last),
                     !.chr_banks = c6]

\* EdgeOf with every revision clocking on the rising edge
EdgeOf_rising(revision) == <<0, 1>>

\* the A12 levels (remembered, presented) that make an access clock the counter
EdgeOf(revision) == IF revision = "Acc" THEN <<1, 0>> ELSE <<0, 1>>

\* irq_counter_clocked with the reload taken one count early
irq_counter_clocked_early(self) ==
    IF self.regs.irq_counter <= 1 \/ self.regs.irq_reload
    THEN self.regs.irq_latch
    ELSE (self.regs.irq_counter - 1) % 256

\* irq_counter_clocked that reloads only on request and so decrements past 0
irq_counter_clocked_wrapping(self) ==
    IF self.regs.irq_reload
    THEN self.regs.irq_latch
    ELSE (self.regs.irq_counter - 1) % 256

\* the counter after a clock: reloaded from the latch, or decremented (u8)
irq_counter_clocked(self) ==
    IF self.regs.irq_counter = 0 \/ self.regs.irq_reload
    THEN self.regs.irq_latch
    ELSE (self.regs.irq_counter - 1) % 256

\* irq_fires with every revision treated as revision BC
irq_fires_any_revision(self, updated) ==
    /\ updated = 0
    /\ self.regs.irq_enabled

\* whether a clock that leaves `updated` in the counter raises the IRQ
irq_fires(self, updated) ==
    /\ \/ BitAnd(self.regs.irq_counter, 1) = 1
       \/ self.revision = "BC"
       \/ self.regs.irq_reload
    /\ updated = 0
    /\ self.regs.irq_enabled

\* clock_irq that leaves a reload request standing after the edge
clock_irq_sticky(self, addr) ==
    IF addr < 8192
    THEN LET next_clock == BitAnd(Shr(addr, 12), 1)
             edge    == EdgeOf(self.revision)
             updated == irq_counter_clocked(self)
         IN  IF self.regs.last_clock = edge[1] /\ next_clock = edge[2]
             THEN [self EXCEPT !.regs.irq_counter = updated,
                               !.irq_pending = IF irq_fires(self, updated) THEN TRUE ELSE @,
                               !.regs.last_clock = next_clock]
             ELSE [self EXCEPT !.regs.last_clock = next_clock]
    ELSE self

\* clock_irq that clocks on the A12 level presented, whatever level it remembers
clock_irq_level(self, addr) ==
    IF addr < 8192
    THEN LET next_clock == BitAnd(Shr(addr, 12), 1)
             edge    == EdgeOf(self.revision)
             updated == irq_counter_clocked(self)
         IN  IF next_clock = edge[2]
             THEN [self EXCEPT !.regs.irq_counter = updated,
                               !.irq_pending = IF irq_fires(self, updated) THEN TRUE ELSE @,
                               !.regs.irq_reload = FALSE,
                               !.regs.last_clock = next_clock]
             ELSE [self EXCEPT !.regs.last_clock = next_clock]
    ELSE self

clock_irq(self, addr) ==
    IF addr < 8192
    THEN LET next_clock == BitAnd(Shr(addr, 12), 1)
             edge    == EdgeOf(self.revision)
             updated == irq_counter_clocked(self)
         IN  IF self.regs.last_clock = edge[1] /\ next_clock = edge[2]
             THEN [self EXCEPT !.regs.irq_counter = updated,
                               !.irq_pending = IF irq_fires(self, updated) THEN TRUE ELSE @,
                               !.regs.irq_reload = FALSE,
                               !.regs.last_clock = next_clock]
             ELSE [self EXCEPT !.regs.last_clock = next_clock]
    ELSE self

irq_pending(self) == self.irq_pending

mirroring(self) == self.mirroring

set_mirroring(self, m) == [self EXCEPT !.mirroring = m]

ppu_bus_read(self, addr) == clock_irq(self, addr)

ppu_bus_write(self, addr, val) == clock_irq(self, addr)

\* MappedRead / MappedWrite values
MappedNone == [kind |-> "None"]
Mapped(kind, off) == [kind |-> kind, off |-> off]
MappedW(kind, off, val) == [kind |-> kind, off |-> off, val |-> val]

\* map_peek with the four-screen range running to the end of the nametables
map_peek_wide(self, addr) ==
    IF addr <= 8191 THEN Mapped("Chr", MemBanks_translate(self.chr_banks, addr))
    ELSE IF addr >= 8192 /\ addr <= 16383 /\ self.mirroring = "FourScreen"
         THEN Mapped("ExRam", BitAnd(addr, 8191))
    ELSE IF addr >= 24576 /\ addr <= 32767
         THEN Mapped("PrgRam", MemBanks_translate(self.prg_ram_banks, addr))
    ELSE IF addr >= 32768 /\ addr <= 65535
         THEN Mapped("PrgRom", MemBanks_translate(self.prg_rom_banks, addr))
    ELSE MappedNone

map_peek(self, addr) ==
    IF addr <= 8191 THEN Mapped("Chr", MemBanks_translate(self.chr_banks, addr))
    ELSE IF addr >= 8192 /\ addr <= 16127 /\ self.mirroring = "FourScreen"
         THEN Mapped("ExRam", BitAnd(addr, 8191))
    ELSE IF addr >= 24576 /\ addr <= 32767
         THEN Mapped("PrgRam", MemBanks_translate(self.prg_ram_banks, addr))
    ELSE IF addr >= 32768 /\ addr <= 65535
         THEN Mapped("PrgRom", MemBanks_translate(self.prg_rom_banks, addr))
    ELSE MappedNone

\* map_read that maps with the A12 level it remembered before the access
map_read_stale(self, addr) ==
    LET clocked == clock_irq(self, addr)
    IN  [self |-> clocked,
         ret  |-> map_peek(self, IF addr < 8192
                                 THEN (addr % 4096) + 4096 * self.regs.last_clock
                                 ELSE addr)]

\* map_read: the mapper after the call, and the value returned
map_read(self, addr) ==
    LET clocked == clock_irq(self, addr)
    IN  [self |-> clocked, ret |-> map_peek(clocked, addr)]

\* RegOf that takes address bit 1 for the register's low bit
RegOf_bit1(addr) == BitAnd(addr, 57344) + BitAnd(Shr(addr, 1), 1)

\* the register a write in $8000-$FFFF decodes to
RegOf(addr) == BitAnd(addr, 57345)

\* the arms of map_write's register match
write_8000(self, val) == update_banks([self EXCEPT !.regs.bank_select = val])

\* write_8001 that also stores the value in the entry after the selected one
write_8001_pair(self, val) ==
    update_banks([self EXCEPT
        !.regs.bank_values[BitAnd(self.regs.bank_select, 7)] = val,
        !.regs.bank_values[(BitAnd(self.regs.bank_select, 7) + 1) % 8] = val])

write_8001(self, val) ==
    update_banks([self EXCEPT !.regs.bank_values[BitAnd(self.regs.bank_select, 7)] = val])

\* write_A000 with the two mirroring modes exchanged
write_A000_swapped(self, val) ==
    IF self.mirroring # "FourScreen"
    THEN update_banks([self EXCEPT !.mirroring =
             IF BitAnd(val, 1) = 0 THEN "Horizontal" ELSE "Vertical"])
    ELSE self

write_A000(self, val) ==
    IF self.mirroring # "FourScreen"
    THEN update_banks([self EXCEPT !.mirroring =
             IF BitAnd(val, 1) = 0 THEN "Vertical" ELSE "Horizontal"])
    ELSE self

write_A001(self, val) == self

write_C000(self, val) == [self EXCEPT !.regs.irq_latch = val]

write_C001(self, val) == [self EXCEPT !.regs.irq_reload = TRUE]

\* write_E000 that disables the IRQ and leaves a raised IRQ standing
write_E000_keep(self, val) == [self EXCEPT !.regs.irq_enabled = FALSE]

write_E000(self, val) == [self EXCEPT !.irq_pending = FALSE, !.regs.irq_enabled = FALSE]

\* write_E001 that also acknowledges the IRQ
write_E001_ack(self, val) == [self EXCEPT !.regs.irq_enabled = TRUE, !.irq_pending = FALSE]

write_E001(self, val) == [self EXCEPT !.regs.irq_enabled = TRUE]

\* map_write: the mapper after the call, and the value returned
map_write(self, addr, val) ==
    IF addr <= 8191
    THEN [self |-> self, ret |-> MappedW("Chr", MemBanks_translate(self.chr_banks, addr), val)]
    ELSE IF addr >= 8192 /\ addr <= 16127 /\ self.mirroring = "FourScreen"
    THEN [self |-> self, ret |-> MappedW("ExRam", BitAnd(addr, 8191), val)]
    ELSE IF addr >= 24576 /\ addr <= 32767
    THEN [self |-> self, ret |-> MappedW("PrgRam", MemBanks_translate(self.prg_ram_banks, addr), val)]
    ELSE IF addr >= 32768 /\ addr <= 65535
    THEN LET reg == RegOf(addr)
             new ==
               CASE reg = 32768 -> write_8000(self, val)
                 [] reg = 32769 -> write_8001(self, val)
                 [] reg = 40960 -> write_A000(self, val)
                 [] reg = 40961 -> write_A001(self, val)
                 [] reg = 49152 -> write_C000(self, val)
                 [] reg = 49153 -> write_C001(self, val)
                 [] reg = 57344 -> write_E000(self, val)
                 [] reg = 57345 -> write_E001(self, val)
         IN  [self |-> new, ret |-> MappedNone]
    ELSE [self |-> self, ret |-> MappedNone]

\* the kinds of reset; Txrom::reset ignores its kind
ResetKinds == {"Soft", "Hard"}

\* reset that leaves the bank tables as they were
Txrom_reset_stale(self, kind) ==
    [self EXCEPT !.irq_pending = FALSE, !.regs = TxRegs_new]

Txrom_reset(self, kind) ==
    update_banks([self EXCEPT !.irq_pending = FALSE, !.regs = TxRegs_new])

---------------------------------------------------------------------------
(* CNROM (mapper/cnrom.rs) *)

\* ROM contents as the cartridge file gives them: the byte at an offset shows
\* the offset's 4KB page in its high nibble and the offset's low nibble
PrgRomInit(off) == ((off \div 4096) * 16 + (off % 16)) % 256
ChrRomInit(off) == 255 - PrgRomInit(off)

\* u16 arithmetic: with overflow checks on (debug profile) an overflow panics,
\* with them off (release profile) the result wraps
U16 == 65536
U16Op(x, checked) ==
    IF x < U16 THEN [ok |-> TRUE, val |-> x]
    ELSE IF checked THEN [ok |-> FALSE, val |-> 0]
    ELSE [ok |-> TRUE, val |-> x % U16]

\* bank * size + off in u16: the multiplication, then the addition
U16MulAdd(bank, size, off, checked) ==
    LET m == U16Op(bank * size, checked)
    IN  IF m.ok THEN U16Op(m.val + off, checked) ELSE m

\* header sizes are in 16KB PRG banks and 8KB CHR banks
PrgRomLen(cart) == cart.prg_rom_size * 16384
ChrRomLen(cart) == cart.chr_rom_size * 8192
PrgRamLen == 8192

\* the arrays: contents of the file overlaid with the bytes written since
PrgRom(self, off) ==
    IF off \in DOMAIN self.prg_rom THEN self.prg_rom[off] ELSE PrgRomInit(off)
ChrRom(self, off) == ChrRomInit(off)
PrgRam(self, off) ==
    IF off \in DOMAIN self.prg_ram THEN self.prg_ram[off] ELSE 0

Put(f, k, v) == [x \in DOMAIN f \cup {k} |-> IF x = k THEN v ELSE f[x]]
EmptyMem == [x \in {} |-> 0]

Panic == [kind |-> "panic"]
Byte(v) == [kind |-> "byte", val |-> v]
Unit == [kind |-> "unit"]
Bool(b) == [kind |-> "bool", flag |-> b]
Mirr(m) == [kind |-> "mirroring", mode |-> m]
Res(r) == [kind |-> r]

Cnrom_load(cart) ==
    [ cart       |-> cart,
      prg_rom    |-> EmptyMem,
      prg_ram    |-> EmptyMem,
      chr_bank   |-> 16,
      prg_bank_1 |-> 16,
      prg_bank_2 |-> cart.prg_rom_size - 1 ]

\* readb: the mapper after the call and the byte returned, or the panic
Cnrom_readb(self, addr, checked) ==
    LET ret ==
          IF addr <= 8191
          THEN LET a == U16MulAdd(self.chr_bank, 8192, addr, checked)
               IN  IF ~a.ok THEN Panic
                   ELSE IF self.cart.chr_rom_size = 0
                        THEN IF a.val < PrgRomLen(self.cart)
                             THEN Byte(PrgRom(self, a.val)) ELSE Panic
                        ELSE IF a.val < ChrRomLen(self.cart)
                             THEN Byte(ChrRom(self, a.val)) ELSE Panic
          ELSE IF addr >= 24576 /\ addr <= 32767
          THEN IF addr - 24576 < PrgRamLen
               THEN Byte(PrgRam(self, addr - 24576)) ELSE Panic
          ELSE IF addr >= 32768 /\ addr <= 49151
          THEN LET a == U16MulAdd(self.prg_bank_1, 16384, addr - 32768, checked)
               IN  IF ~a.ok THEN Panic
                   ELSE IF a.val < PrgRomLen(self.cart)
                        THEN Byte(PrgRom(self, a.val)) ELSE Panic
          ELSE IF addr >= 49152 /\ addr <= 65535
          THEN LET a == U16MulAdd(self.prg_bank_2, 16384, addr - 49152, checked)
               IN  IF ~a.ok THEN Panic
                   ELSE IF a.val < PrgRomLen(self.cart)
                        THEN Byte(PrgRom(self, a.val)) ELSE Panic
          ELSE Byte(0)
    IN  [self |-> self, ret |-> ret]

Cnrom_writeb(self, addr, val, checked) ==
    IF addr <= 8191
    THEN IF self.cart.chr_rom_size = 0
         THEN LET a == U16MulAdd(self.chr_bank, 8192, addr, checked)
              IN  IF a.ok /\ a.val < PrgRomLen(self.cart)
                  THEN [self |-> [self EXCEPT !.prg_rom = Put(@, a.val, val)], ret |-> Unit]
                  ELSE [self |-> self, ret |-> Panic]
         ELSE [self |-> self, ret |-> Unit]
    ELSE IF addr >= 24576 /\ addr <= 32767
    THEN IF addr - 24576 < PrgRamLen
         THEN [self |-> [self EXCEPT !.prg_ram = Put(@, addr - 24576, val)], ret |-> Unit]
         ELSE [self |-> self, ret |-> Panic]
    ELSE IF addr >= 32768 /\ addr <= 65535
    THEN [self |-> [self EXCEPT !.chr_bank = BitAnd(val, 3)], ret |-> Unit]
    ELSE [self |-> self, ret |-> Unit]

---------------------------------------------------------------------------
(* The loader (mapper.rs) *)

NullMapper == [tag |-> "NullMapper"]
Ok(tag) == [tag |-> tag]
OkSxrom(variant) == [tag |-> "Sxrom", variant |-> variant]
Err(msg, num) == [tag |-> "Err", msg |-> msg, num |-> num]

\* load_rom that falls back to NROM for a number it does not know
load_rom_fallback(rom) ==
    IF ~rom.valid THEN [tag |-> "Err", msg |-> "invalid rom"]
    ELSE LET n == rom.mapper_num
         IN  CASE n = 1   -> OkSxrom("B")
               [] n = 2 \/ n = 71 -> Ok("Uxrom")
               [] n = 3   -> Ok("Cnrom")
               [] n = 4   -> Ok("Txrom")
               [] n = 5   -> Ok("Exrom")
               [] n = 7   -> Ok("Axrom")
               [] n = 9   -> Ok("Pxrom")
               [] n = 155 -> OkSxrom("A")
               [] OTHER   -> Ok("Nrom")

\* load_rom: rom is the parsed cartridge, or not valid when Cartridge::from_rom fails
load_rom(rom) ==
    IF ~rom.valid THEN [tag |-> "Err", msg |-> "invalid rom"]
    ELSE LET n == rom.mapper_num
         IN  CASE n = 0   -> Ok("Nrom")
               [] n = 1   -> OkSxrom("B")
               [] n = 2 \/ n = 71 -> Ok("Uxrom")
               [] n = 3   -> Ok("Cnrom")
               [] n = 4   -> Ok("Txrom")
               [] n = 5   -> Ok("Exrom")
               [] n = 7   -> Ok("Axrom")
               [] n = 9   -> Ok("Pxrom")
               [] n = 155 -> OkSxrom("A")
               [] OTHER   -> Err("unsupported mapper number", n)

---------------------------------------------------------------------------
(* Savable for Mirroring (mapper.rs) *)

\* u8::load: one byte off the front of the stream, or an error at its end
U8_load(stream) ==
    IF stream = <<>> THEN [res |-> "Err", val |-> 0, fh |-> stream]
    ELSE [res |-> "Ok", val |-> Head(stream), fh |-> Tail(stream)]

\* u8::save: one byte onto the end of the stream
U8_save(val, stream) == [res |-> "Ok", fh |-> Append(stream, val)]

Mirroring_save(self, stream) == U8_save(MirroringAsU8(self), stream)

\* load: the outcome (Ok, Err or panic), the Mirroring value after the call
\* and the stream after it
Mirroring_load(self, stream) ==
    LET b == U8_load(stream)
    IN  IF b.res = "Err" THEN [res |-> "Err", self |-> self, fh |-> b.fh]
        ELSE CASE b.val = 0 -> [res |-> "Ok", self |-> "Horizontal", fh |-> b.fh]
               [] b.val = 1 -> [res |-> "Ok", self |-> "Vertical", fh |-> b.fh]
               [] b.val = 2 -> [res |-> "Ok", self |-> "SingleScreenA", fh |-> b.fh]
               [] b.val = 3 -> [res |-> "Ok", self |-> "SingleScreenB", fh |-> b.fh]
               [] b.val = 4 -> [res |-> "Ok", self |-> "FourScreen", fh |-> b.fh]
               [] OTHER     -> [res |-> "panic", self |-> self, fh |-> b.fh]

---------------------------------------------------------------------------
(* Inputs *)

\* header mapper numbers: every one-byte number, and some above
MapperNums == (0 .. 255) \cup {256, 259, 260, 4095}

Rom(n, prg, chr, m) ==
    [valid |-> TRUE, mapper_num |-> n, prg_rom_size |-> prg, chr_rom_size |-> chr,
     mirroring |-> m]

\* a ROM file that Cartridge::from_rom rejects
InvalidRom == [valid |-> FALSE]

\* cartridges for TxROM: 32KB PRG, 8KB CHR
TxRoms == {Rom(4, 2, 1, "Horizontal"), Rom(4, 2, 1, "FourScreen")}

\* cartridges for CNROM: no CHR-ROM, 2, 4 and 8 CHR banks
CnRoms == {Rom(3, 1, 0, "Horizontal"), Rom(3, 2, 2, "Vertical"),
           Rom(3, 1, 4, "Horizontal"), Rom(3, 2, 8, "Horizontal")}

Roms == {InvalidRom}
          \cup {Rom(n, 2, 1, "Horizontal") : n \in MapperNums \ {3, 4}}
          \cup TxRoms \cup CnRoms

\* the Cart that Txrom::load is given
TxCart(rom) ==
    [ prg_rom_len |-> rom.prg_rom_size * 16384,
      chr_rom_len |-> rom.chr_rom_size * 8192,
      mirroring   |-> rom.mirroring ]

\* bus addresses: both sides of every boundary of the address map
Addrs == {0, 4095, 4096, 8191, 8192, 16127, 16128, 24575, 24576, 32767, 32768, 65535}

\* PPU bus notifications: A12 low and high below $2000, and above it
PpuAddrs == {0, 4096, 8191, 8192, 12288}

\* two addresses for each of the eight registers
RegAddrs == {32768, 40958, 32769, 40959, 40960, 49150, 40961, 49151,
             49152, 57342, 49153, 57343, 57344, 65534, 57345, 65535}

\* addresses written below the registers
LowWriteAddrs == {0, 8191, 8192, 16127, 16128, 24575, 24576, 32767}

\* The writes of the address-map runs: every register, the bank registers and
\* the mirroring register with several values, the IRQ latch with 0
MapVals(addr) ==
    IF addr < 32768 THEN {7}
    ELSE CASE RegOf(addr) = 32768 -> {198}
           [] RegOf(addr) = 32769 -> {5}
           [] RegOf(addr) = 40960 -> {0, 1, 2, 3}
           [] RegOf(addr) = 49152 -> {0}
           [] OTHER -> {255}

MapWrites == {w \in (RegAddrs \cup LowWriteAddrs) \X {0, 1, 2, 3, 5, 7, 198, 255} :
                 w[2] \in MapVals(w[1])}

\* The writes of the IRQ runs: every register, the IRQ latch with 0..MaxLatch
IrqVals(addr) ==
    IF addr >= 32768 /\ RegOf(addr) = 49152 THEN 0 .. MaxLatch ELSE {0}

\* every register, the four IRQ registers at two addresses, and PRG-RAM
IrqWriteAddrs == {32768, 32769, 40960, 40961, 49152, 57342, 49153, 57343,
                  57344, 65534, 57345, 65535, 24576}

IrqReadAddrs == {0, 4096, 32768}

\* CNROM writes
CnValsFor(addr) ==
    IF addr <= 8191 THEN {170}
    ELSE IF addr < 32768 THEN {85}
    ELSE {0, 1, 2, 3, 7}

CnWriteAddrs == {0, 8192, 24575, 24576, 32767, 32768, 65535}

\* bytes in a save-state stream
FhBytes == {0, 1, 2, 3, 4, 5, 255}

RECURSIVE SeqsUpTo(_, _)
SeqsUpTo(S, n) ==
    IF n = 0 THEN {<<>>}
    ELSE LET shorter == SeqsUpTo(S, n - 1)
         IN  shorter \cup {Append(q, x) : q \in shorter, x \in S}

---------------------------------------------------------------------------
(* The state machine *)

NoMapper == [tag |-> "none"]
Call(name, ret) == [name |-> name, ret |-> ret]

Init ==
    /\ mapper = NullMapper
    /\ txrom = NoMapper
    /\ cnrom = NoMapper
    /\ op = Call("null", Unit)
    /\ panicked = FALSE
    /\ mirr = "Horizontal"
    /\ fh = <<>>

SavUnchanged == UNCHANGED <<mirr, fh>>

\* load_rom on one of `roms`
LoadRom(roms, inits) ==
    /\ mapper = NullMapper
    /\ op.name = "null"
    /\ \E rom \in roms, init \in inits :
         LET m == load_rom(rom)
         IN  /\ mapper' = m
             /\ txrom' = IF m.tag = "Txrom" THEN Txrom_load(TxCart(rom), init) ELSE txrom
             /\ cnrom' = IF m.tag = "Cnrom" THEN Cnrom_load(rom) ELSE cnrom
             /\ op' = Call("load_rom", Unit)
    /\ UNCHANGED panicked
    /\ SavUnchanged

TxLive == mapper.tag = "Txrom" /\ ~panicked

TxStep(new, call) ==
    /\ TxLive
    /\ txrom' = new
    /\ op' = call
    /\ UNCHANGED <<mapper, cnrom, panicked>>
    /\ SavUnchanged

TxSetRevision(revs) ==
    \E r \in revs : TxStep(set_revision(txrom, r), Call("set_revision", Unit))

TxIrqPending == TxStep(txrom, Call("irq_pending", Bool(irq_pending(txrom))))

TxMirroring == TxStep(txrom, Call("mirroring", Mirr(mirroring(txrom))))

TxSetMirroring(ms) ==
    \E m \in ms : TxStep(set_mirroring(txrom, m), Call("set_mirroring", Unit))

TxPpuBusRead(addrs) ==
    \E a \in addrs : TxStep(ppu_bus_read(txrom, a), Call("ppu_bus_read", Unit))

TxPpuBusWrite(addrs) ==
    \E a \in addrs : TxStep(ppu_bus_write(txrom, a, 0), Call("ppu_bus_write", Unit))

TxMapRead(addrs) ==
    \E a \in addrs : LET r == map_read(txrom, a) IN TxStep(r.self, Call("map_read", r.ret))

TxMapPeek(addrs) ==
    \E a \in addrs : TxStep(txrom, Call("map_peek", map_peek(txrom, a)))

TxMapWrite(writes) ==
    \E w \in writes :
        LET r == map_write(txrom, w[1], w[2]) IN TxStep(r.self, Call("map_write", r.ret))

TxReset == \E k \in ResetKinds : TxStep(Txrom_reset(txrom, k), Call("reset", Unit))

CnLive == mapper.tag = "Cnrom" /\ ~panicked

CnStep(r, name) ==
    /\ CnLive
    /\ cnrom' = r.self
    /\ op' = Call(name, r.ret)
    /\ panicked' = (r.ret = Panic)
    /\ UNCHANGED <<mapper, txrom>>
    /\ SavUnchanged

CnReadb == \E a \in Addrs, checked \in BOOLEAN : CnStep(Cnrom_readb(cnrom, a, checked), "readb")

CnWriteb ==
    \E a \in CnWriteAddrs, checked \in BOOLEAN : \E v \in CnValsFor(a) :
        CnStep(Cnrom_writeb(cnrom, a, v, checked), "writeb")

(* Every cartridge through the loader; TxROM and CNROM over the whole address map *)

Next ==
    \/ LoadRom(Roms, MemBanksInits)
    \/ TxSetRevision({"BC"})
    \/ TxIrqPending
    \/ TxMirroring
    \/ TxSetMirroring({"Horizontal", "FourScreen"})
    \/ TxPpuBusRead({0, 4096, 8192})
    \/ TxPpuBusWrite({0, 4096, 8192})
    \/ TxMapRead(Addrs)
    \/ TxMapPeek(Addrs)
    \/ TxMapWrite(MapWrites)
    \/ TxReset
    \/ CnReadb
    \/ CnWriteb

Spec == Init /\ [][Next]_vars

(* TxROM with every revision and the IRQ registers written with every value *)

IrqWrites == {w \in IrqWriteAddrs \X (0 .. MaxLatch) : w[2] \in IrqVals(w[1])}

IrqNext ==
    \/ LoadRom({Rom(4, 2, 1, "Vertical")}, {"zero"})
    \/ TxSetRevision(Mmc3Revision)
    \/ TxIrqPending
    \/ TxPpuBusRead(PpuAddrs)
    \/ TxPpuBusWrite({0, 4096})
    \/ TxMapRead(IrqReadAddrs)
    \/ TxMapPeek({4096})
    \/ TxMapWrite(IrqWrites)
    \/ TxReset

IrqSpec == Init /\ [][IrqNext]_vars

(* TxROM with the bank registers written with every register index and mode *)

\* a cartridge with 8 PRG banks of 8KB and 16 CHR banks of 1KB
BankRoms == {Rom(4, 4, 2, "Horizontal")}

\* bank_select values: every register index, and each of the two mode bits
BankSelects == (0 .. 7) \cup {70, 128, 199}

\* The writes of the bank runs: bank select, bank data with an even and an
\* odd value, and the registers that leave the bank registers alone
BankWrites ==
    ({32768} \X BankSelects) \cup ({40958} \X {70})
        \cup ({32769, 40959} \X {0, 5})
        \cup {<<40960, 1>>, <<40961, 0>>, <<49152, 0>>, <<57344, 0>>}

BankNext ==
    \/ LoadRom(BankRoms, MemBanksInits)
    \/ TxMapPeek({57344})
    \/ TxMapWrite(BankWrites)
    \/ TxReset

BankSpec == Init /\ [][BankNext]_vars

(* Save and load of a Mirroring value, from every value and stream *)

SavInit ==
    /\ mapper = NullMapper
    /\ txrom = NoMapper
    /\ cnrom = NoMapper
    /\ op = Call("null", Unit)
    /\ panicked = FALSE
    /\ mirr \in Mirroring
    /\ fh \in SeqsUpTo(FhBytes, MaxFh)

SavSave ==
    /\ ~panicked
    /\ Len(fh) < MaxFh
    /\ LET r == Mirroring_save(mirr, fh)
       IN  /\ fh' = r.fh
           /\ op' = Call("save", Res(r.res))
    /\ UNCHANGED <<mapper, txrom, cnrom, panicked, mirr>>

SavLoad ==
    /\ ~panicked
    /\ LET r == Mirroring_load(mirr, fh)
       IN  /\ mirr' = r.self
           /\ fh' = r.fh
           /\ op' = Call("load", Res(r.res))
           /\ panicked' = (r.res = "panic")
    /\ UNCHANGED <<mapper, txrom, cnrom>>

SavNext == SavSave \/ SavLoad

SavSpec == SavInit /\ [][SavNext]_vars

---------------------------------------------------------------------------
(* Properties *)

\* the A12 level an address presents
A12(addr) == BitAnd(Shr(addr, 12), 1)

\* an access that is a qualifying A12 edge: below $2000, with the remembered
\* and the presented A12 level those the revision clocks on
QualifyingEdge(self, addr) ==
    /\ addr < 8192
    /\ self.regs.last_clock = (IF self.revision = "Acc" THEN 1 ELSE 0)
    /\ A12(addr) = (IF self.revision = "Acc" THEN 0 ELSE 1)

\* the addresses and writes the properties range over
ClaimAddrs == PpuAddrs \cup {4095, 24576, 65535}
ClaimWrites == (RegAddrs \X {0, 255}) \cup ({0, 8192, 24576} \X {7})

\* the mapper after each of the three calls that present addr to the IRQ clock
Clocked(self, addr) ==
    {ppu_bus_read(self, addr), ppu_bus_write(self, addr, 0), map_read(self, addr).self}

\* the mapper after each call that is not a bus access: register and other
\* writes, reset, set_revision, set_mirroring
Unclocked(self) ==
    {map_write(self, w[1], w[2]).self : w \in ClaimWrites}
        \cup {Txrom_reset(self, k) : k \in ResetKinds}
        \cup {set_revision(self, r) : r \in Mmc3Revision}
        \cup {set_mirroring(self, m) : m \in Mirroring}

IsReg(addr, reg) == addr >= 32768 /\ RegOf(addr) = reg

\* C1: with IRQ enabled and no reload requested, a qualifying A12 edge that
\* finds a nonzero counter leaves the counter one lower; it leaves irq_pending
\* as it was when the counter stays nonzero and sets it when the counter
\* reaches 0.  The counter and the flag after the edge are functions of the
\* state before it, so the same edges from the same state give the same run.
C1_Countdown ==
    TxLive =>
      \A a \in ClaimAddrs : \A t \in Clocked(txrom, a) :
        ( /\ QualifyingEdge(txrom, a)
          /\ txrom.regs.irq_enabled
          /\ ~txrom.regs.irq_reload
          /\ txrom.regs.irq_counter # 0 )
        => /\ t.regs.irq_counter = txrom.regs.irq_counter - 1
           /\ t.regs.irq_counter # 0 => t.irq_pending = txrom.irq_pending
           /\ t.regs.irq_counter = 0 => t.irq_pending

\* a countdown under way: the latch is MaxLatch, one edge has taken the counter
\* to 1 without raising the IRQ, and the next qualifying edge can be presented
C1_Witness ==
    /\ TxLive
    /\ op.name = "ppu_bus_read"
    /\ txrom.regs.irq_enabled
    /\ ~txrom.regs.irq_reload
    /\ ~txrom.irq_pending
    /\ txrom.regs.irq_latch = 2
    /\ txrom.regs.irq_counter = 1
    /\ \E a \in PpuAddrs : QualifyingEdge(txrom, a)

\* C2: a qualifying edge raises irq_pending exactly when the counter after the
\* update is 0, IRQ is enabled, and the counter was odd or the revision is BC
\* or a reload was requested; no other step raises irq_pending.
C2_FireCondition ==
    TxLive =>
      /\ \A a \in ClaimAddrs : \A t \in Clocked(txrom, a) :
           IF QualifyingEdge(txrom, a)
           THEN t.irq_pending =
                  ( \/ txrom.irq_pending
                    \/ /\ t.regs.irq_counter = 0
                       /\ txrom.regs.irq_enabled
                       /\ \/ txrom.regs.irq_counter % 2 = 1
                          \/ txrom.revision = "BC"
                          \/ txrom.regs.irq_reload )
           ELSE t.irq_pending => txrom.irq_pending
      /\ \A t \in Unclocked(txrom) : t.irq_pending => txrom.irq_pending

\* revision A has clocked a zero counter with a zero latch, IRQ enabled, and
\* the IRQ was not raised
C2_Witness ==
    /\ TxLive
    /\ op.name = "ppu_bus_write"
    /\ txrom.revision = "A"
    /\ txrom.regs.last_clock = 1
    /\ txrom.regs.irq_enabled
    /\ txrom.regs.irq_counter = 0
    /\ txrom.regs.irq_latch = 0
    /\ ~txrom.irq_pending

\* C3: irq_pending, once set, stays set across every bus access, every write
\* that does not decode to $E000, set_revision and set_mirroring; a write to
\* $E000 clears it and disables the IRQ, reset clears it, and a write to $E001
\* enables the IRQ and leaves irq_pending as it was.
C3_Latched ==
    TxLive =>
      /\ txrom.irq_pending =>
           /\ irq_pending(txrom)
           /\ \A a \in ClaimAddrs : \A t \in Clocked(txrom, a) : t.irq_pending
           /\ \A r \in Mmc3Revision : set_revision(txrom, r).irq_pending
           /\ \A m \in Mirroring : set_mirroring(txrom, m).irq_pending
           /\ \A w \in ClaimWrites :
                ~IsReg(w[1], 57344) => map_write(txrom, w[1], w[2]).self.irq_pending
           /\ \A k \in ResetKinds : ~Txrom_reset(txrom, k).irq_pending
      /\ \A w \in {x \in ClaimWrites : IsReg(x[1], 57344)} :
           /\ ~map_write(txrom, w[1], w[2]).self.irq_pending
           /\ ~map_write(txrom, w[1], w[2]).self.regs.irq_enabled
      /\ \A w \in {x \in ClaimWrites : IsReg(x[1], 57345)} :
           /\ map_write(txrom, w[1], w[2]).self.regs.irq_enabled
           /\ map_write(txrom, w[1], w[2]).self.irq_pending = txrom.irq_pending

\* the flag was polled while set and is still set
C3_Witness ==
    /\ TxLive
    /\ op = Call("irq_pending", Bool(TRUE))
    /\ txrom.irq_pending

\* C4: a write to an address decoding to $A000 outside four-screen mode makes
\* mirroring() Vertical for an even value and Horizontal for an odd one; in
\* four-screen mode the write leaves the whole mapper as it was.
C4_MirroringControl ==
    TxLive =>
      \A a \in {40960, 49150} : \A v \in {0, 1, 2, 3, 254, 255} :
        LET t == map_write(txrom, a, v).self
        IN  IF txrom.mirroring # "FourScreen"
            THEN mirroring(t) = (IF v % 2 = 0 THEN "Vertical" ELSE "Horizontal")
            ELSE t = txrom

\* mirroring() has returned Vertical, which only a write to $A000 selects here
C4_Witness ==
    /\ TxLive
    /\ op = Call("mirroring", Mirr("Vertical"))

\* C5: a map_peek leaves the mapper as it was; from the state it was made in,
\* map_read of any address returns what map_peek of that address returns; and
\* every map_read made returned the map_peek value of the state before it,
\* also when it clocked the IRQ counter.
C5_ReadIsPeek ==
    [][ TxLive =>
          /\ op'.name = "map_peek" =>
               /\ txrom' = txrom
               /\ \A a \in Addrs : map_read(txrom, a).ret = map_peek(txrom, a)
          /\ op'.name = "map_read" =>
               \E a \in Addrs : /\ txrom' = clock_irq(txrom, a)
                                /\ op'.ret = map_peek(txrom, a) ]_vars

\* a read of $1000 has returned the CHR mapping with the IRQ raised
C5_Witness ==
    /\ TxLive
    /\ op = Call("map_read", map_peek(txrom, 4096))
    /\ txrom.regs.last_clock = 1
    /\ txrom.regs.irq_enabled
    /\ txrom.irq_pending

\* the mapper numbers load_rom knows, and the variant of each
Supported == {0, 1, 2, 3, 4, 5, 7, 9, 71, 155}

VariantOf(n) ==
    CASE n = 0 -> [tag |-> "Nrom"]
      [] n = 1 -> [tag |-> "Sxrom", variant |-> "B"]
      [] n \in {2, 71} -> [tag |-> "Uxrom"]
      [] n = 3 -> [tag |-> "Cnrom"]
      [] n = 4 -> [tag |-> "Txrom"]
      [] n = 5 -> [tag |-> "Exrom"]
      [] n = 7 -> [tag |-> "Axrom"]
      [] n = 9 -> [tag |-> "Pxrom"]
      [] n = 155 -> [tag |-> "Sxrom", variant |-> "A"]

\* C6: load_rom returns the variant of a supported mapper number, and for any
\* other number the unsupported-mapper error with that number; after an error
\* no mapper has been constructed.
C6_Loader ==
    /\ mapper = NullMapper =>
         \A rom \in Roms :
           rom.valid =>
             load_rom(rom) =
               IF rom.mapper_num \in Supported
               THEN VariantOf(rom.mapper_num)
               ELSE [tag |-> "Err", msg |-> "unsupported mapper number",
                     num |-> rom.mapper_num]
    /\ mapper.tag = "Err" => txrom = NoMapper /\ cnrom = NoMapper
    /\ mapper.tag = "Err" /\ mapper.msg = "unsupported mapper number" =>
         mapper.num \notin Supported
    /\ mapper.tag = "Txrom" <=> txrom # NoMapper
    /\ mapper.tag = "Cnrom" <=> cnrom # NoMapper

\* load_rom has failed on mapper number 250
C6_Witness ==
    /\ op.name = "load_rom"
    /\ mapper = [tag |-> "Err", msg |-> "unsupported mapper number", num |-> 250]
    /\ txrom = NoMapper
    /\ cnrom = NoMapper

\* the mask for the CHR banks of a cartridge (a power of two of them)
ChrBankMask(cart) == cart.chr_rom_size - 1

\* C7: on a CNROM with CHR-ROM, a write of v to $8000-$FFFF selects CHR bank
\* v masked to the cartridge's bank count, a bank the CHR-ROM has, and the next
\* read of a in $0000-$1FFF returns the CHR byte at bank * 0x2000 + a.
C7_BankSelect ==
    CnLive /\ cnrom.cart.chr_rom_size > 0 =>
      \A a \in {32768, 65535} : \A v \in {0, 1, 2, 3, 7, 255} : \A c1 \in BOOLEAN :
        LET w == Cnrom_writeb(cnrom, a, v, c1)
        IN  /\ w.ret = Unit
            /\ w.self.chr_bank = BitAnd(v, ChrBankMask(cnrom.cart))
            /\ w.self.chr_bank < cnrom.cart.chr_rom_size
            /\ \A r \in {0, 4095, 4096, 8191} : \A c2 \in BOOLEAN :
                 Cnrom_readb(w.self, r, c2).ret
                   = Byte(ChrRom(w.self, w.self.chr_bank * 8192 + r))

\* C8: on a CNROM, a read of a in $8000-$BFFF returns the PRG-ROM byte at
\* a - $8000, a read of a in $C000-$FFFF the byte at last_bank * 0x4000 +
\* (a - $C000), and no write changes the two PRG banks.
C8_PrgFixed ==
    CnLive =>
      /\ \A a \in {32768, 49151} : \A c \in BOOLEAN :
           Cnrom_readb(cnrom, a, c).ret = Byte(PrgRom(cnrom, a - 32768))
      /\ \A a \in {49152, 65535} : \A c \in BOOLEAN :
           Cnrom_readb(cnrom, a, c).ret
             = Byte(PrgRom(cnrom, (cnrom.cart.prg_rom_size - 1) * 16384 + (a - 49152)))
      /\ \A a \in CnWriteAddrs : \A v \in CnValsFor(a) : \A c \in BOOLEAN :
           LET w == Cnrom_writeb(cnrom, a, v, c)
           IN  /\ w.self.prg_bank_1 = cnrom.prg_bank_1
               /\ w.self.prg_bank_2 = cnrom.prg_bank_2

\* the addresses of Addrs no range of the mapper covers
CnUnmapped == {a \in Addrs : a >= 8192 /\ a < 24576}
TxUnmapped(self) ==
    {a \in Addrs : a >= 8192 /\ a < 24576
                     /\ ~(self.mirroring = "FourScreen" /\ a <= 16127)}

\* C9: a read outside every mapped range changes nothing and is not fatal:
\* Cnrom readb returns 0, Txrom map_read and map_peek return None.
C9_UnmappedRead ==
    /\ TxLive =>
         \A a \in TxUnmapped(txrom) :
           /\ map_peek(txrom, a) = MappedNone
           /\ map_read(txrom, a) = [self |-> txrom, ret |-> MappedNone]
    /\ CnLive =>
         \A a \in CnUnmapped : \A c \in BOOLEAN :
           Cnrom_readb(cnrom, a, c) = [self |-> cnrom, ret |-> Byte(0)]

\* a four-screen Txrom has returned None for a read
C9_Witness ==
    /\ TxLive
    /\ txrom.mirroring = "FourScreen"
    /\ op = Call("map_read", MappedNone)

\* C10: loading a Mirroring from a byte outside 0..4 returns an error and
\* leaves the Mirroring value as it was.
C10_InvalidIsError ==
    (~panicked /\ fh # <<>> /\ Head(fh) \notin 0 .. 4) =>
      LET r == Mirroring_load(mirr, fh)
      IN  r.res = "Err" /\ r.self = mirr

\* C11: save of a Mirroring value appends one byte in 0..4 that no other value
\* is saved as, and load of that byte into any Mirroring variable succeeds,
\* consumes the byte and leaves the variable holding the value saved.
C11_RoundTrip ==
    ~panicked =>
      LET s == Mirroring_save(mirr, fh)
          b == s.fh[Len(s.fh)]
      IN  /\ s.res = "Ok"
          /\ s.fh = Append(fh, b)
          /\ b \in 0 .. 4
          /\ \A other \in Mirroring \ {mirr} :
               Mirroring_save(other, fh).fh # s.fh
          /\ \A prev \in Mirroring :
               Mirroring_load(prev, <<b>>) = [res |-> "Ok", self |-> mirr, fh |-> <<>>]

\* a load has consumed the stream and restored SingleScreenB
C11_Witness ==
    /\ op = Call("load", Res("Ok"))
    /\ mirr = "SingleScreenB"
    /\ fh = <<>>

\* C12: reset of either kind, from any state, leaves every register of TxRegs
\* at its initial value (0 / false) and irq_pending false, and puts the PRG
\* banks the loader fixed back: slot 2 holds last-1 and slot 3 holds last, so
\* $C000 and $E000 map where they mapped after load.
C12_Reset ==
    TxLive =>
      \A k \in ResetKinds :
        LET t    == Txrom_reset(txrom, k)
            last == MemBanks_last(txrom.prg_rom_banks)
        IN  /\ t.regs.bank_select = 0
            /\ \A i \in 0 .. 7 : t.regs.bank_values[i] = 0
            /\ t.regs.irq_latch = 0
            /\ t.regs.irq_counter = 0
            /\ t.regs.last_clock = 0
            /\ ~t.regs.irq_enabled
            /\ ~t.regs.irq_reload
            /\ ~irq_pending(t)
            /\ t.prg_rom_banks.banks[2] = last - 1
            /\ t.prg_rom_banks.banks[3] = last
            /\ \A rom \in TxRoms, init \in MemBanksInits :
                 LET l == Txrom_load(TxCart(rom), init)
                 IN  /\ t.prg_rom_banks.banks[2] = l.prg_rom_banks.banks[2]
                     /\ t.prg_rom_banks.banks[3] = l.prg_rom_banks.banks[3]
                     /\ map_peek(t, 49152) = map_peek(l, 49152)
                     /\ map_peek(t, 57344) = map_peek(l, 57344)

\* a reset has been made on a mapper whose mirroring a register write chose
C12_Witness ==
    /\ TxLive
    /\ op = Call("reset", Unit)
    /\ txrom.mirroring = "Vertical"
    /\ txrom.regs = TxRegs_new
    /\ txrom.prg_rom_banks.banks[2] = 2

\* C13: an access at $2000 or above leaves the mapper as it was; an access
\* below $2000 that is not a qualifying edge (remembered and presented A12
\* level 0 then 1 for revisions A and BC, 1 then 0 for Acc) changes nothing but
\* the remembered A12 level; a qualifying edge updates the counter, clears the
\* reload request and remembers the level.
C13_EdgeQualification ==
    TxLive =>
      \A a \in ClaimAddrs : \A t \in Clocked(txrom, a) :
        LET want == IF txrom.revision \in {"A", "BC"} THEN <<0, 1>> ELSE <<1, 0>>
            qualifies == /\ a < 8192
                         /\ txrom.regs.last_clock = want[1]
                         /\ A12(a) = want[2]
        IN  /\ a >= 8192 => t = txrom
            /\ a < 8192 /\ ~qualifies =>
                 t = [txrom EXCEPT !.regs.last_clock = A12(a)]
            /\ qualifies =>
                 /\ t.regs.last_clock = A12(a)
                 /\ ~t.regs.irq_reload
                 /\ t.regs.irq_counter =
                      IF txrom.regs.irq_counter = 0 \/ txrom.regs.irq_reload
                      THEN txrom.regs.irq_latch
                      ELSE txrom.regs.irq_counter - 1

\* revision Acc has counted an access with A12 low down from the latch
C13_Witness ==
    /\ TxLive
    /\ op.name = "ppu_bus_read"
    /\ txrom.revision = "Acc"
    /\ txrom.regs.last_clock = 0
    /\ txrom.regs.irq_latch = 2
    /\ txrom.regs.irq_counter = 1

\* C14: a qualifying edge leaves in the counter the latch when the counter was
\* 0 or a reload was requested, and the counter less one otherwise, and leaves
\* no reload request; irq_reload is set by a write to $C001 and by nothing
\* else, and once set stays set across everything but a qualifying edge and
\* reset.
C14_CounterUpdate ==
    TxLive =>
      /\ \A a \in ClaimAddrs : \A t \in Clocked(txrom, a) :
           IF QualifyingEdge(txrom, a)
           THEN /\ ~t.regs.irq_reload
                /\ (txrom.regs.irq_counter = 0 \/ txrom.regs.irq_reload)
                     => t.regs.irq_counter = txrom.regs.irq_latch
                /\ (txrom.regs.irq_counter # 0 /\ ~txrom.regs.irq_reload)
                     => t.regs.irq_counter = txrom.regs.irq_counter - 1
           ELSE t.regs.irq_reload = txrom.regs.irq_reload
      /\ \A w \in ClaimWrites :
           map_write(txrom, w[1], w[2]).self.regs.irq_reload
             = (IsReg(w[1], 49153) \/ txrom.regs.irq_reload)
      /\ \A r \in Mmc3Revision :
           set_revision(txrom, r).regs.irq_reload = txrom.regs.irq_reload
      /\ \A m \in Mirroring :
           set_mirroring(txrom, m).regs.irq_reload = txrom.regs.irq_reload
      /\ \A k \in ResetKinds : ~Txrom_reset(txrom, k).regs.irq_reload

\* a rising edge has just reloaded the counter from the latch and left no
\* reload request
C14_Witness ==
    /\ TxLive
    /\ op.name = "ppu_bus_write"
    /\ txrom.revision = "A"
    /\ txrom.regs.last_clock = 1
    /\ ~txrom.regs.irq_reload
    /\ txrom.regs.irq_latch = 2
    /\ txrom.regs.irq_counter = 2

\* C15: irq_counter and irq_latch are always within 0..255, also one access
\* after the latch was written with 255; a qualifying edge that finds the
\* counter at 0 reloads it and never decrements it; an access that is not a
\* qualifying edge and a register write other than $C001 leave irq_counter as
\* it was, and a write to $C001 leaves in it the old counter or the latch.
C15_CounterRange ==
    TxLive =>
      /\ txrom.regs.irq_counter \in 0 .. 255
      /\ txrom.regs.irq_latch \in 0 .. 255
      /\ \A a \in ClaimAddrs : \A t \in Clocked(txrom, a) :
           /\ t.regs.irq_counter \in 0 .. 255
           /\ t.regs.irq_latch = txrom.regs.irq_latch
           /\ IF QualifyingEdge(txrom, a)
              THEN /\ txrom.regs.irq_counter = 0 =>
                        t.regs.irq_counter = txrom.regs.irq_latch
                   /\ t.regs.irq_counter # txrom.regs.irq_latch =>
                        /\ txrom.regs.irq_counter >= 1
                        /\ t.regs.irq_counter = txrom.regs.irq_counter - 1
              ELSE t.regs.irq_counter = txrom.regs.irq_counter
      /\ \A w \in ClaimWrites :
           LET t == map_write(txrom, w[1], w[2]).self
           IN  /\ t.regs.irq_latch \in 0 .. 255
               /\ IF IsReg(w[1], 49153)
                  THEN t.regs.irq_counter \in {txrom.regs.irq_counter, txrom.regs.irq_latch}
                  ELSE t.regs.irq_counter = txrom.regs.irq_counter
      /\ \A a \in {0, 4096} :
           \A t \in Clocked(map_write(txrom, 49152, 255).self, a) :
             t.regs.irq_counter \in 0 .. 255

\* a read has counted the counter down from the latch to 1
C15_Witness ==
    /\ TxLive
    /\ op.name = "map_read"
    /\ txrom.revision = "BC"
    /\ txrom.regs.last_clock = 1
    /\ txrom.regs.irq_latch = 2
    /\ txrom.regs.irq_counter = 1

C17_ChrLayout ==
    (TxLive /\ op.name \in {"map_write", "reset"}) =>
      LET bv   == txrom.regs.bank_values
          slot == txrom.chr_banks.banks
          v0   == BitAnd(bv[0], 254)
          v1   == BitAnd(bv[1], 254)
      IN  IF BitAnd(txrom.regs.bank_select, 128) = 0
          THEN /\ <<slot[0], slot[1], slot[2], slot[3]>> = <<v0, v0 + 1, v1, v1 + 1>>
               /\ <<slot[4], slot[5], slot[6], slot[7]>> = <<bv[2], bv[3], bv[4], bv[5]>>
          ELSE /\ <<slot[0], slot[1], slot[2], slot[3]>> = <<bv[2], bv[3], bv[4], bv[5]>>
               /\ <<slot[4], slot[5], slot[6], slot[7]>> = <<v0, v0 + 1, v1, v1 + 1>>

\* the mapper without its two derived bank tables
NoTables(self) == [self EXCEPT !.chr_banks = <<>>, !.prg_rom_banks = <<>>]

\* C18: apart from the derived bank tables, a write to $8000 changes only
\* bank_select and a write to $8001 only bank_values[bank_select & 7]; a write
\* to $C000 changes only irq_latch, to $C001 only irq_reload, to $E001 only
\* irq_enabled, and to $A001 nothing; no register write changes irq_counter or
\* the remembered A12 level, and none is handed on as a write to ROM or RAM.
C18_WriteFrame ==
    TxLive =>
      \A w \in {x \in ClaimWrites : x[1] >= 32768} :
        LET r   == map_write(txrom, w[1], w[2])
            t   == r.self
            reg == BitAnd(w[1], 57345)
            sel == BitAnd(txrom.regs.bank_select, 7)
        IN  /\ r.ret = MappedNone
            /\ t.regs.irq_counter = txrom.regs.irq_counter
            /\ t.regs.last_clock = txrom.regs.last_clock
            /\ reg = 32768 =>
                 NoTables(t) = NoTables([txrom EXCEPT !.regs.bank_select = w[2]])
            /\ reg = 32769 =>
                 /\ NoTables(t) = NoTables([txrom EXCEPT !.regs.bank_values[sel] = w[2]])
                 /\ t.regs.bank_select = txrom.regs.bank_select
                 /\ \A i \in (0 .. 7) \ {sel} :
                      t.regs.bank_values[i] = txrom.regs.bank_values[i]
            /\ reg = 40961 => t = txrom
            /\ reg = 49152 => t = [txrom EXCEPT !.regs.irq_latch = w[2]]
            /\ reg = 49153 => t = [txrom EXCEPT !.regs.irq_reload = TRUE]
            /\ reg = 57345 => t = [txrom EXCEPT !.regs.irq_enabled = TRUE]

\* a write to $8001 has stored 5 in entry 3 alone
C18_Witness ==
    /\ TxLive
    /\ op = Call("map_write", MappedNone)
    /\ BitAnd(txrom.regs.bank_select, 7) = 3
    /\ txrom.regs.bank_values = [i \in 0 .. 7 |-> IF i = 3 THEN 5 ELSE 0]

\* the eight registers, and two more addresses that decode to each of them
Registers == {32768, 32769, 40960, 40961, 49152, 49153, 57344, 57345}
DecodeAddrs == {40958, 40959, 49150, 49151, 57342, 57343, 65534, 65535,
                33450, 36865, 43690, 45057, 52428, 53249, 61166, 61441}

\* every address from `first` to $FFFF decodes to one of the eight registers
DecodeTotal(first) == \A a \in first .. 65535 : RegOf(a) \in Registers

\* C19: a write of a value to an address in $8000-$FFFF gives the mapper and
\* the result that the write of that value to any other address with the same
\* bits under the mask $E001 gives, and every address in $8000-$FFFF decodes
\* to one of the eight registers (a fact of the addresses alone, checked once
\* for each loaded mapper).
C19_Decode ==
    /\ (TxLive /\ op.name = "load_rom") => DecodeTotal(32768)
    /\ TxLive =>
         \A a \in DecodeAddrs : \A v \in {5, 198} :
           map_write(txrom, a, v) = map_write(txrom, BitAnd(a, 57345), v)

\* a write to $9FFE, which decodes to $8000, has set both mode bits
C19_Witness ==
    /\ TxLive
    /\ op = Call("map_write", MappedNone)
    /\ txrom.regs.bank_select = 70
    /\ \E v \in {0, 5} : map_write(txrom, 40959, v) = map_write(txrom, 32769, v)

\* C20: no CNROM write changes PRG-ROM (CHR-ROM is never written to); a write
\* to $0000-$1FFF on a cartridge with CHR-ROM changes nothing, a write to
\* $6000-$7FFF changes only the PRG-RAM byte addressed, and a write to
\* $8000-$FFFF changes only the CHR bank register.
C20_RomReadOnly ==
    CnLive =>
      \A a \in CnWriteAddrs : \A v \in CnValsFor(a) : \A c \in BOOLEAN :
        LET t == Cnrom_writeb(cnrom, a, v, c).self
        IN  /\ t.prg_rom = cnrom.prg_rom
            /\ \A off \in {0, 4096, 8192} : PrgRom(t, off) = PrgRom(cnrom, off)
            /\ (a <= 8191 /\ cnrom.cart.chr_rom_size > 0) => t = cnrom
            /\ (a >= 24576 /\ a <= 32767) =>
                 t = [cnrom EXCEPT !.prg_ram = Put(@, a - 24576, v)]
            /\ a >= 32768 => [t EXCEPT !.chr_bank = 0] = [cnrom EXCEPT !.chr_bank = 0]

\* C21: in every state of a loaded Txrom irq_pending implies irq_enabled: an
\* access raises the flag only with the IRQ enabled, and a write, reset,
\* set_revision or set_mirroring that leaves the IRQ disabled leaves the flag
\* clear.
C21_PendingImpliesEnabled ==
    TxLive =>
      /\ txrom.irq_pending => txrom.regs.irq_enabled
      /\ \A a \in ClaimAddrs : \A t \in Clocked(txrom, a) :
           (t.irq_pending /\ ~txrom.irq_pending) => txrom.regs.irq_enabled
      /\ \A t \in Unclocked(txrom) :
           ~t.regs.irq_enabled => ~t.irq_pending

\* an access has raised the IRQ, with the IRQ enabled
C21_Witness ==
    /\ TxLive
    /\ op.name = "ppu_bus_read"
    /\ txrom.irq_pending
    /\ txrom.regs.irq_enabled
    /\ txrom.regs.irq_counter = 0

\* C22: on a Txrom loaded with four-screen mirroring, and so with
\* FOUR_SCREEN_RAM_SIZE bytes of extra RAM, map_peek, map_read and map_write
\* of an address in $2000-$3EFF give an ExRam offset below that size.
C22_ExRamBound ==
    (TxLive /\ txrom.mirroring = "FourScreen" /\ txrom.ex_ram_len = FOUR_SCREEN_RAM_SIZE) =>
      \A a \in {8192, 12287, 12288, 16127} :
        LET p == map_peek(txrom, a)
            r == map_read(txrom, a).ret
            w == map_write(txrom, a, 7).ret
        IN  /\ p.kind = "ExRam" /\ p.off < txrom.ex_ram_len
            /\ r.kind = "ExRam" /\ r.off < txrom.ex_ram_len
            /\ w.kind = "ExRam" /\ w.off < txrom.ex_ram_len

\* C23: in every state of a loaded Cnrom, the first after load included, the
\* offsets chr_bank * 0x2000 + a for a in $0000-$1FFF, prg_bank_1 * 0x4000 +
\* (a - $8000) for a in $8000-$BFFF and prg_bank_2 * 0x4000 + (a - $C000) for
\* a in $C000-$FFFF fit in 16 bits and lie inside the array they index.
C23_OffsetsInRange ==
    CnLive =>
      LET chrLen == IF cnrom.cart.chr_rom_size = 0
                    THEN PrgRomLen(cnrom.cart) ELSE ChrRomLen(cnrom.cart)
      IN  /\ \A a \in {0, 8191} :
               LET o == U16MulAdd(cnrom.chr_bank, 8192, a, TRUE)
               IN  o.ok /\ o.val < chrLen
          /\ \A a \in {32768, 49151} :
               LET o == U16MulAdd(cnrom.prg_bank_1, 16384, a - 32768, TRUE)
               IN  o.ok /\ o.val < PrgRomLen(cnrom.cart)
          /\ \A a \in {49152, 65535} :
               LET o == U16MulAdd(cnrom.prg_bank_2, 16384, a - 49152, TRUE)
               IN  o.ok /\ o.val < PrgRomLen(cnrom.cart)

\* C24: presenting an address to the IRQ clock a second time, by any of
\* ppu_bus_read, ppu_bus_write and map_read after any of them, leaves the
\* mapper as the first presentation left it: the counter, the reload request
\* and the IRQ flag are not touched again.
C24_ClockIdempotent ==
    TxLive =>
      \A a \in ClaimAddrs : \A t \in Clocked(txrom, a) : \A u \in Clocked(t, a) :
        /\ u = t
        /\ u.regs.irq_counter = t.regs.irq_counter
        /\ u.regs.irq_reload = t.regs.irq_reload
        /\ u.irq_pending = t.irq_pending

\* a bus read has presented A12 high to revision BC while A12 was high
\* already: the reload request made before it is still standing
C24_Witness ==
    /\ TxLive
    /\ op.name = "ppu_bus_read"
    /\ txrom.revision = "BC"
    /\ txrom.regs.last_clock = 1
    /\ txrom.regs.irq_reload

====
